---------------------------- MODULE Spec2Model ----------------------------
(***************************************************************************)
(* A model of qachatbot.py: the LogFormatter class (format_field,          *)
(* create_log_entry) and the Streamlit script around it (the submission    *)
(* handler, the chat history and the recent-logs read-back).               *)
(*                                                                         *)
(* A Python str is a sequence of one-character strings.  A Python          *)
(* expression that may raise evaluates to a record [exc, val]: exc = TRUE  *)
(* means an exception escaped it and val is str(e).                        *)
(***************************************************************************)
EXTENDS Integers, Sequences, FiniteSets, TLC

VARIABLES
    logger,     \* the LogFormatter instance: [max_field_length, padding_char]
    call,       \* the last call made on logger directly: [op, args, result]
    messages,   \* st.session_state.messages
    file,       \* chat_logs.txt: [exists, text]
    pc,         \* where the script run stands
    turn,       \* what the current / last script run did
    turns,      \* number of submissions with non-empty input so far
    completed,  \* turn numbers in the order their model call returned or failed
    written,    \* [turn, entry] in the order log entries were written
    shown,      \* what the script run has drawn: [state, errors, history, logs, nologs]
    clock       \* seconds since midnight read by datetime.now()

vars == <<logger, call, messages, file, pc, turn, turns, completed, written, shown, clock>>

appvars == <<messages, file, pc, turn, turns, completed, written, shown, clock>>

-----------------------------------------------------------------------------
(* Bounds of the model. *)

MaxTextLen == 5     \* longest text value handed to format_field directly
MaxWidth == 6       \* largest explicit width handed to format_field directly
MaxInt == 12        \* integers range over -MaxInt..MaxInt
MaxEighths == 9     \* reals range over -MaxEighths/8 .. MaxEighths/8
MaxTurns == 2       \* submissions with non-empty input per session
MaxClock == 1       \* the clock advances at most this many seconds

-----------------------------------------------------------------------------
(* Python primitives. *)

Ok(s) == [exc |-> FALSE, val |-> s]

Raise(msg) == [exc |-> TRUE, val |-> msg]

Rep(c, n) == [i \in 1..n |-> c]

Max(a, b) == IF a >= b THEN a ELSE b

Min(a, b) == IF a <= b THEN a ELSE b

\* s[:k], for any integer k: a negative k counts from the end.
PySliceTo(s, k) ==
    IF k >= 0 THEN SubSeq(s, 1, Min(k, Len(s)))
    ELSE SubSeq(s, 1, Max(0, Len(s) + k))

\* s[-k:] for k > 0.
PyLast(s, k) == SubSeq(s, Max(1, Len(s) - k + 1), Len(s))

FillCharError ==
    <<"T", "h", "e", " ", "f", "i", "l", "l", " ", "c", "h", "a", "r", "a", "c",
      "t", "e", "r", " ", "m", "u", "s", "t", " ", "b", "e", " ", "e", "x", "a",
      "c", "t", "l", "y", " ", "o", "n", "e", " ", "c", "h", "a", "r", "a", "c",
      "t", "e", "r", " ", "l", "o", "n", "g">>

\* str.ljust(width, fillchar): the fill character is checked when the
\* arguments are read, before any padding is computed.
ljust(s, width, fillchar) ==
    IF Len(fillchar) # 1 THEN Raise(FillCharError)
    ELSE Ok(s \o Rep(fillchar[1], Max(0, width - Len(s))))

DigitChar(d) == <<"0", "1", "2", "3", "4", "5", "6", "7", "8", "9">>[d + 1]

RECURSIVE Digits(_)
Digits(n) ==
    IF n < 10 THEN <<DigitChar(n)>>
    ELSE Digits(n \div 10) \o <<DigitChar(n % 10)>>

\* f"{x:d}"
FormatD(x) == IF x < 0 THEN <<"-">> \o Digits(-x) ELSE Digits(x)

TwoDigits(n) == <<DigitChar(n \div 10), DigitChar(n % 10)>>

\* f"{x:.2f}" for the real x = e/8.  Multiples of 1/8 are exact in binary
\* floating point, so the conversion rounds the exact value, ties to even.
FormatF2(e) ==
    LET a == IF e < 0 THEN -e ELSE e
        whole == (25 * a) \div 2
        tie == (25 * a) % 2 = 1
        h == IF tie /\ whole % 2 = 1 THEN whole + 1 ELSE whole
    IN  (IF e < 0 THEN <<"-">> ELSE <<>>)
            \o Digits(h \div 100) \o <<".">> \o TwoDigits(h % 100)

-----------------------------------------------------------------------------
(* Values.  [kind, val]: kind is the value's Python type. *)

StrV(s) == [kind |-> "str", val |-> s]
IntV(n) == [kind |-> "int", val |-> n]
FloatV(e) == [kind |-> "float", val |-> e]          \* the real e/8
BoolV(b) == [kind |-> "bool", val |-> b]
DictV(items) == [kind |-> "dict", val |-> items]    \* <<key, value>> pairs in insertion order
ListV(items) == [kind |-> "list", val |-> items]
NoneV == [kind |-> "NoneType", val |-> <<>>]
SetV == [kind |-> "set", val |-> <<>>]              \* the empty set()
BadStrV(msg) == [kind |-> "object", val |-> msg]    \* an object whose __str__ raises msg

NotSerializable ==
    <<"O", "b", "j", "e", "c", "t", " ", "o", "f", " ", "t", "y", "p", "e", " ",
      "s", "e", "t", " ", "i", "s", " ", "n", "o", "t", " ", "J", "S", "O", "N",
      " ", "s", "e", "r", "i", "a", "l", "i", "z", "a", "b", "l", "e">>

JsonEscape(c) ==
    CASE c = "\"" -> <<"\\", "\"">>
      [] c = "\\" -> <<"\\", "\\">>
      [] c = "\n" -> <<"\\", "n">>
      [] OTHER -> <<c>>

RECURSIVE JsonChars(_)
JsonChars(s) == IF s = <<>> THEN <<>> ELSE JsonEscape(Head(s)) \o JsonChars(Tail(s))

\* A JSON string; ensure_ascii=False leaves non-ASCII characters as they are.
JsonString(s) == <<"\"">> \o JsonChars(s) \o <<"\"">>

RECURSIVE json_dumps(_)
RECURSIVE JsonListItems(_)
RECURSIVE JsonDictItems(_)

\* An encoded item h before the encoded rest t of a list or dict; the first
\* error ends the encoding.
JsonCons(h, t, last) ==
    IF h.exc THEN h
    ELSE IF t.exc THEN t
    ELSE Ok(h.val \o (IF last THEN <<>> ELSE <<",", " ">>) \o t.val)

\* "key": value
JsonKeyed(key, h) ==
    IF h.exc THEN h ELSE Ok(JsonString(key) \o <<":", " ">> \o h.val)

JsonBracket(open, r, close) ==
    IF r.exc THEN r ELSE Ok(<<open>> \o r.val \o <<close>>)

JsonListItems(items) ==
    IF items = <<>> THEN Ok(<<>>)
    ELSE JsonCons(json_dumps(Head(items)), JsonListItems(Tail(items)), Tail(items) = <<>>)

JsonDictItems(items) ==
    IF items = <<>> THEN Ok(<<>>)
    ELSE JsonCons(JsonKeyed(Head(items)[1], json_dumps(Head(items)[2])),
                  JsonDictItems(Tail(items)), Tail(items) = <<>>)

\* json.dumps(x, ensure_ascii=False)
json_dumps(x) ==
    CASE x.kind = "str" -> Ok(JsonString(x.val))
      [] x.kind = "int" -> Ok(FormatD(x.val))
      [] x.kind = "bool" -> Ok(IF x.val THEN <<"t", "r", "u", "e">> ELSE <<"f", "a", "l", "s", "e">>)
      [] x.kind = "NoneType" -> Ok(<<"n", "u", "l", "l">>)
      [] x.kind = "list" -> JsonBracket("[", JsonListItems(x.val), "]")
      [] x.kind = "dict" -> JsonBracket("{", JsonDictItems(x.val), "}")
      [] OTHER -> Raise(NotSerializable)

\* str(x)
str(x) ==
    CASE x.kind = "str" -> Ok(x.val)
      [] x.kind = "NoneType" -> Ok(<<"N", "o", "n", "e">>)
      [] x.kind = "set" -> Ok(<<"s", "e", "t", "(", ")">>)
      [] x.kind = "bool" -> Ok(IF x.val THEN <<"T", "r", "u", "e">> ELSE <<"F", "a", "l", "s", "e">>)
      [] x.kind = "int" -> Ok(FormatD(x.val))
      [] OTHER -> Raise(x.val)

\* str.lower() on the two texts str() gives for a bool
lower(s) ==
    [i \in 1..Len(s) |-> CASE s[i] = "T" -> "t" [] s[i] = "F" -> "f" [] OTHER -> s[i]]

-----------------------------------------------------------------------------
(* class LogFormatter *)

\* LogFormatter(max_field_length, padding_char)
LogFormatter(max_field_length, padding_char) ==
    [max_field_length |-> max_field_length, padding_char |-> padding_char]

\* self.type_formats.get(type(value), str)(value)
type_formats(value) ==
    CASE value.kind = "str" -> str(value)
      [] value.kind = "int" -> Ok(FormatD(value.val))
      [] value.kind = "float" -> Ok(FormatF2(value.val))
      [] value.kind = "bool" -> Ok(lower(str(value).val))
      [] value.kind = "dict" -> json_dumps(value)
      [] value.kind = "list" -> json_dumps(value)
      [] OTHER -> str(value)

\* width = width or self.max_field_length: None and 0 are both falsy, and
\* an absent width is written 0 here.
WidthOr(self, width) == IF width = 0 THEN self.max_field_length ELSE width

\* if len(formatted) > width: formatted = formatted[: width - 3] + "..."
Truncate(formatted, width) ==
    IF Len(formatted) > width
    THEN PySliceTo(formatted, width - 3) \o <<".", ".", ".">>
    ELSE formatted

\* The try block once the value is rendered: truncate, then pad.
TruncateAndPad(self, formatted, width) ==
    IF formatted.exc THEN formatted
    ELSE ljust(Truncate(formatted.val, width), width, self.padding_char)

\* The body of format_field's try block.
format_field_try(self, value, width) ==
    TruncateAndPad(self, type_formats(value), width)

\* f"Error formatting {field_name}: {str(e)}"
ErrorFormatting(field_name, msg) ==
    <<"E", "r", "r", "o", "r", " ", "f", "o", "r", "m", "a", "t", "t", "i", "n", "g", " ">>
        \o field_name \o <<":", " ">> \o msg

\* The result r of the try block, or what the except branch returns for it.
OrFallback(self, r, field_name, width) ==
    IF ~r.exc THEN r
    ELSE ljust(ErrorFormatting(field_name, r.val), width, self.padding_char)

\* format_field once the width is settled.
FormatAtWidth(self, value, field_name, width) ==
    OrFallback(self, format_field_try(self, value, width), field_name, width)

\* LogFormatter.format_field(value, field_name, width)
format_field(self, value, field_name, width) ==
    FormatAtWidth(self, value, field_name, WidthOr(self, width))

\* field_widths with the widths of user_input and response exchanged.
field_widths_swapped(self, key) ==
    CASE key = <<"t", "i", "m", "e", "s", "t", "a", "m", "p">> -> 20
      [] key = <<"l", "o", "g", "_", "i", "d">> -> 10
      [] key = <<"u", "s", "e", "r", "_", "i", "n", "p", "u", "t">> -> 80
      [] key = <<"r", "e", "s", "p", "o", "n", "s", "e">> -> 50
      [] key = <<"m", "o", "d", "e", "l">> -> 15
      [] key = <<"d", "u", "r", "a", "t", "i", "o", "n", "_", "m", "s">> -> 10
      [] OTHER -> self.max_field_length

\* field_widths.get(key, self.max_field_length)
field_widths(self, key) ==
    CASE key = <<"t", "i", "m", "e", "s", "t", "a", "m", "p">> -> 20
      [] key = <<"l", "o", "g", "_", "i", "d">> -> 10
      [] key = <<"u", "s", "e", "r", "_", "i", "n", "p", "u", "t">> -> 50
      [] key = <<"r", "e", "s", "p", "o", "n", "s", "e">> -> 80
      [] key = <<"m", "o", "d", "e", "l">> -> 15
      [] key = <<"d", "u", "r", "a", "t", "i", "o", "n", "_", "m", "s">> -> 10
      [] OTHER -> self.max_field_length

\* datetime.now().strftime("%Y-%m-%d %H:%M:%S"), the clock being the seconds
\* since midnight of one fixed day.
strftime(now) ==
    <<"2", "0", "2", "5", "-", "0", "1", "-", "0", "1", " ">>
        \o TwoDigits((now \div 3600) % 24) \o <<":">>
        \o TwoDigits((now \div 60) % 60) \o <<":">>
        \o TwoDigits(now % 60)

HexChar(d) ==
    <<"0", "1", "2", "3", "4", "5", "6", "7", "8", "9", "a", "b", "c", "d", "e", "f">>[(d % 16) + 1]

\* str(uuid.uuid4()): 8-4-4-4-12 hexadecimal digits, version 4, variant 8.
\* The random digits are those of r.
uuid4_str(r) ==
    LET c == HexChar(r)
        d == HexChar(r \div 16)
    IN  <<d, d, d, d, d, d, d, c, "-", c, c, c, c, "-", "4", c, c, c, "-", "8", c, c, c, "-">>
            \o Rep(c, 12)

\* " | ".join(fields)
RECURSIVE join(_)
join(fields) ==
    IF fields = <<>> THEN <<>>
    ELSE IF Len(fields) = 1 THEN fields[1]
    ELSE fields[1] \o <<" ", "|", " ">> \o join(Tail(fields))

\* What create_log_entry formats, in order: the timestamp, the short id,
\* then the caller's fields.
EntryItems(log_data, now, r) ==
    <<<<<<"t", "i", "m", "e", "s", "t", "a", "m", "p">>, StrV(strftime(now))>>,
      <<<<"l", "o", "g", "_", "i", "d">>, StrV(PySliceTo(uuid4_str(r), 8))>>>>
    \o log_data

\* One call of format_field per item, at the width field_widths gives its name.
FormatItems(self, items) ==
    [i \in 1..Len(items) |->
        format_field(self, items[i][2], items[i][1], field_widths(self, items[i][1]))]

\* formatted_fields of create_log_entry: the results of the calls of
\* format_field, in order.
formatted_fields(self, log_data, now, r) ==
    FormatItems(self, EntryItems(log_data, now, r))

\* " | ".join(formatted_fields); an exception that escaped a call of
\* format_field escapes create_log_entry.
JoinFields(ff) ==
    IF \E i \in 1..Len(ff) : ff[i].exc
    THEN ff[CHOOSE i \in 1..Len(ff) : ff[i].exc /\ \A j \in 1..(i - 1) : ~ff[j].exc]
    ELSE Ok(join([i \in 1..Len(ff) |-> ff[i].val]))

\* LogFormatter.create_log_entry(log_data), log_data being the (key, value)
\* pairs of the dict in insertion order.
create_log_entry(self, log_data, now, r) ==
    JoinFields(formatted_fields(self, log_data, now, r))

-----------------------------------------------------------------------------
(* The state before the first script run. *)

NoCall == [op |-> "none"]

\* A script run that has not entered the submission handler.
NoTurn ==
    [n |-> 0, input |-> <<>>, start |-> 0, model |-> "none", calls |-> 0,
     errors |-> <<>>, built |-> <<>>, writes |-> 0, failed |-> 0,
     propagated |-> FALSE, histBefore |-> <<>>,
     fileBefore |-> [exists |-> FALSE, text |-> <<>>]]

\* The page before anything is drawn on it.
Blank == [state |-> "none", errors |-> <<>>, history |-> <<>>, logs |-> <<>>, nologs |-> FALSE]

AppInit ==
    /\ messages = <<>>
    /\ file = [exists |-> FALSE, text |-> <<>>]
    /\ pc = "idle"
    /\ turn = NoTurn
    /\ turns = 0
    /\ completed = <<>>
    /\ written = <<>>
    /\ shown = Blank
    /\ clock = 0

-----------------------------------------------------------------------------
(* format_field called directly, on a formatter of any configuration. *)

TextChars == {"a", "b"}

Texts == UNION {[1..n -> TextChars] : n \in 0..MaxTextLen}

FieldNames == {<<"f">>, <<"m", "o", "d", "e", "l">>}

PaddingChars == {<<" ">>, <<"*">>, <<>>, <<"*", "*">>}

Configs == {LogFormatter(m, p) : m \in {100, MaxWidth}, p \in PaddingChars}

Boom == <<"b", "o", "o", "m">>

\* Mappings, sequences and values of other kinds.
Containers ==
    <<DictV(<<>>),
      DictV(<< <<<<"a">>, IntV(1)>> >>),
      DictV(<< <<<<"k">>, StrV(<<"e", "\"", "\n">>)>>, <<<<"n">>, NoneV>> >>),
      DictV(<< <<<<"a">>, SetV>> >>),
      ListV(<<>>),
      ListV(<<IntV(-3), BoolV(TRUE), ListV(<<StrV(<<"x">>)>>)>>),
      ListV(<<IntV(1), SetV>>),
      NoneV,
      SetV,
      BadStrV(Boom)>>

\* The arguments of a call of format_field that has yet to run.
FormatFieldArgs(value, field_name, width) ==
    [op |-> "format_field", done |-> FALSE, value |-> value,
     field_name |-> field_name, width |-> width]

InitFormat ==
    /\ logger \in Configs
    /\ AppInit
    /\ \E field_name \in FieldNames, width \in 0..MaxWidth :
        \/ \E s \in Texts : call = FormatFieldArgs(StrV(s), field_name, width)
        \/ \E n \in -MaxInt..MaxInt : call = FormatFieldArgs(IntV(n), field_name, width)
        \/ \E e \in -MaxEighths..MaxEighths : call = FormatFieldArgs(FloatV(e), field_name, width)
        \/ \E b \in BOOLEAN : call = FormatFieldArgs(BoolV(b), field_name, width)
        \/ \E i \in 1..Len(Containers) : call = FormatFieldArgs(Containers[i], field_name, width)

FormatField ==
    /\ call.op = "format_field"
    /\ ~call.done
    /\ call' = [op |-> "format_field", done |-> TRUE, value |-> call.value,
                field_name |-> call.field_name, width |-> call.width,
                result |-> format_field(logger, call.value, call.field_name, call.width)]
    /\ UNCHANGED <<logger, appvars>>

SpecFormat == InitFormat /\ [][FormatField]_vars

-----------------------------------------------------------------------------
(* create_log_entry called directly, on the formatter the script builds. *)

MaxFields == 2      \* entries of a log_data handed to create_log_entry directly

KeyUserInput == <<"u", "s", "e", "r", "_", "i", "n", "p", "u", "t">>
KeyResponse == <<"r", "e", "s", "p", "o", "n", "s", "e">>
KeyModel == <<"m", "o", "d", "e", "l">>
KeyDurationMs == <<"d", "u", "r", "a", "t", "i", "o", "n", "_", "m", "s">>
KeyTimestamp == <<"t", "i", "m", "e", "s", "t", "a", "m", "p">>
KeyLogId == <<"l", "o", "g", "_", "i", "d">>
KeyNote == <<"n", "o", "t", "e">>

Keys == {KeyUserInput, KeyResponse, KeyModel, KeyDurationMs, KeyTimestamp, KeyLogId, KeyNote}

\* logger = LogFormatter(max_field_length=100, padding_char=" ")
AppLogger == LogFormatter(100, <<" ">>)

\* Field values: a short text, a text longer than every width, an integer
\* and a mapping json.dumps cannot encode.
EntryValues ==
    <<StrV(<<"h", "i">>),
      StrV(Rep("x", AppLogger.max_field_length + 1)),
      IntV(5),
      DictV(<< <<<<"a">>, SetV>> >>)>>

InitEntry ==
    /\ logger = AppLogger
    /\ AppInit
    /\ \E n \in 0..MaxFields :
        \E ks \in [1..n -> Keys], vs \in [1..n -> 1..Len(EntryValues)] :
            /\ \A i, j \in 1..n : ks[i] = ks[j] => i = j
            /\ call = [op |-> "create_log_entry", done |-> FALSE,
                       log_data |-> [i \in 1..n |-> <<ks[i], EntryValues[vs[i]]>>]]

CreateLogEntry ==
    /\ call.op = "create_log_entry"
    /\ ~call.done
    /\ \E now \in 0..MaxClock, r \in 0..1 :
        call' = [op |-> "create_log_entry", done |-> TRUE, log_data |-> call.log_data,
                 now |-> now, r |-> r,
                 result |-> create_log_entry(logger, call.log_data, now, r)]
    /\ UNCHANGED <<logger, appvars>>

SpecEntry == InitEntry /\ [][CreateLogEntry]_vars

-----------------------------------------------------------------------------
(* The Streamlit script: one run per user interaction. *)

RecentCount == 5    \* f.readlines()[-5:]

ModelName == <<"d", "e", "e", "p", "s", "e", "e", "k", ":", "1", ".", "5", "b">>

NoResponseReceived ==
    <<"N", "o", " ", "r", "e", "s", "p", "o", "n", "s", "e", " ", "r", "e", "c", "e", "i", "v", "e", "d">>

\* str(e) of the OSError open() raises when chat_logs.txt cannot be opened.
PermissionDenied ==
    <<"[", "E", "r", "r", "n", "o", " ", "1", "3", "]", " ", "P", "e", "r", "m", "i", "s", "s", "i", "o", "n",
      " ", "d", "e", "n", "i", "e", "d", ":", " ", "'", "c", "h", "a", "t", "_", "l", "o", "g", "s", ".", "t",
      "x", "t", "'">>

\* What the user types into the text area; the empty text is falsy.
Inputs == {<<>>, <<"h", "i">>, <<"a", "\n", "b">>}

\* What ollama.chat returns: a mapping whose message may carry no content.
Responses ==
    {[has |-> FALSE, content |-> <<>>],
     [has |-> TRUE, content |-> <<"c", "\n", "d">>]}

\* str(e) of what ollama.chat raises.
ModelErrors == {<<"c", "o", "n", "n", "e", "c", "t", "i", "o", "n", " ", "r", "e", "f", "u", "s", "e", "d">>}

\* The random digits uuid.uuid4() draws in its k-th call of script run n:
\* every call draws afresh, and the draws of a session are taken distinct.
UuidDraw(n, k) == 2 * n + k

Message(role, content) == [role |-> role, content |-> content]

\* A history that takes the new message at its front.
AppendMessageAtFront(history, role, content) == <<Message(role, content)>> \o history

\* st.session_state.messages.append({"role": role, "content": content})
AppendMessage(history, role, content) == Append(history, Message(role, content))

\* response.get("message", {}).get("content", "No response received")
AssistantResponse(response) ==
    IF response.has THEN response.content ELSE NoResponseReceived

\* int((datetime.now() - start_time).total_seconds() * 1000)
DurationMs(start_time, now) == (now - start_time) * 1000

\* log_data of the success path
SuccessLogData(user_input, assistant_response, duration_ms) ==
    <<<<KeyUserInput, StrV(user_input)>>,
      <<KeyResponse, StrV(assistant_response)>>,
      <<KeyModel, StrV(ModelName)>>,
      <<KeyDurationMs, IntV(duration_ms)>>>>

\* f"Error: {str(e)}"
ErrorText(e) == <<"E", "r", "r", "o", "r", ":", " ">> \o e

\* An except branch that logs the placeholder instead of the error.
ErrorLogDataWithoutError(user_input, e) ==
    <<<<KeyUserInput, StrV(user_input)>>,
      <<KeyResponse, StrV(NoResponseReceived)>>,
      <<KeyModel, StrV(ModelName)>>,
      <<KeyDurationMs, IntV(0)>>>>

\* log_data of the except branch
ErrorLogData(user_input, e) ==
    <<<<KeyUserInput, StrV(user_input)>>,
      <<KeyResponse, StrV(ErrorText(e))>>,
      <<KeyModel, StrV(ModelName)>>,
      <<KeyDurationMs, IntV(0)>>>>

\* The file opened in mode "w": the entry replaces what the file held.
AppendLogTruncating(f, log_entry) ==
    [exists |-> TRUE, text |-> log_entry \o <<"\n">>]

\* with open("chat_logs.txt", "a", encoding="utf-8") as f: f.write(log_entry + "\n")
AppendLog(f, log_entry) ==
    [exists |-> TRUE, text |-> f.text \o log_entry \o <<"\n">>]

\* f.readlines(): the lines of the text, each with its terminator.
RECURSIVE readlines(_)
readlines(text) ==
    IF text = <<>> THEN <<>>
    ELSE IF \E i \in 1..Len(text) : text[i] = "\n"
         THEN LET k == CHOOSE i \in 1..Len(text) :
                        text[i] = "\n" /\ \A j \in 1..(i - 1) : text[j] # "\n"
              IN  <<SubSeq(text, 1, k)>> \o readlines(SubSeq(text, k + 1, Len(text)))
         ELSE <<text>>

IsSpace(c) == c \in {" ", "\n", "\t", "\r"}

\* str.strip(): without the leading and the trailing whitespace.
strip(s) ==
    IF \A i \in 1..Len(s) : IsSpace(s[i]) THEN <<>>
    ELSE LET first == CHOOSE i \in 1..Len(s) : ~IsSpace(s[i]) /\ \A j \in 1..(i - 1) : IsSpace(s[j])
             last == CHOOSE i \in 1..Len(s) : ~IsSpace(s[i]) /\ \A j \in (i + 1)..Len(s) : IsSpace(s[j])
         IN  SubSeq(s, first, last)

\* A read-back that removes the line terminator only.
RecentLogsUnstripped(f) ==
    LET logs == PyLast(readlines(f.text), RecentCount)
    IN  [i \in 1..Len(logs) |->
            IF logs[i][Len(logs[i])] = "\n" THEN SubSeq(logs[i], 1, Len(logs[i]) - 1)
            ELSE logs[i]]

\* logs = f.readlines()[-5:]; st.text(log.strip()) for each
RecentLogs(f) ==
    LET logs == PyLast(readlines(f.text), RecentCount)
    IN  [i \in 1..Len(logs) |-> strip(logs[i])]

\* A script run whose handler is skipped: the button was not pressed, or the
\* text area was empty (if submit_button and user_input).
Rerun ==
    /\ pc \in {"idle", "aborted"}
    /\ \E submit_button \in BOOLEAN, user_input \in Inputs :
        /\ ~(submit_button /\ user_input # <<>>)
        /\ turn' = [NoTurn EXCEPT !.histBefore = messages, !.fileBefore = file]
    /\ shown' = Blank
    /\ pc' = "handled"
    /\ UNCHANGED <<logger, call, messages, file, turns, completed, written, clock>>

\* The handler up to the call of ollama.chat: start_time is read and the
\* user message appended.
Submit ==
    /\ pc \in {"idle", "aborted"}
    /\ turns < MaxTurns
    /\ \E user_input \in Inputs \ {<<>>} :
        /\ messages' = AppendMessage(messages, "user", user_input)
        /\ turn' = [NoTurn EXCEPT !.n = turns + 1, !.input = user_input, !.start = clock,
                                  !.model = "pending", !.calls = 1,
                                  !.histBefore = messages, !.fileBefore = file]
    /\ turns' = turns + 1
    /\ shown' = Blank
    /\ pc' = "calling"
    /\ UNCHANGED <<logger, call, file, completed, written, clock>>

\* Time passes while ollama.chat blocks.
Tick ==
    /\ pc = "calling"
    /\ clock < MaxClock
    /\ clock' = clock + 1
    /\ UNCHANGED <<logger, call, messages, file, pc, turn, turns, completed, written, shown>>

\* The write of the except branch: an entry that could not be built, or a
\* file that cannot be opened, is an error in the branch itself and leaves
\* the script.
ExceptWrite(t, log_entry, io_ok) ==
    IF log_entry.exc
    THEN /\ turn' = [t EXCEPT !.propagated = TRUE]
         /\ pc' = "aborted"
         /\ UNCHANGED <<file, written>>
    ELSE IF io_ok
    THEN /\ turn' = [t EXCEPT !.writes = @ + 1]
         /\ file' = AppendLog(file, log_entry.val)
         /\ written' = Append(written, [turn |-> t.n, entry |-> log_entry.val])
         /\ pc' = "handled"
    ELSE /\ turn' = [t EXCEPT !.writes = @ + 1, !.failed = @ + 1, !.propagated = TRUE]
         /\ pc' = "aborted"
         /\ UNCHANGED <<file, written>>

\* The except branch, entered with the exception e from the state t of the
\* run: the error is shown, an error entry is built and its write attempted.
ExceptBranch(t, e, io_ok) ==
    ExceptWrite([t EXCEPT !.errors = Append(@, ErrorText(e)),
                          !.built = Append(@, [path |-> "except",
                                               log_data |-> ErrorLogData(t.input, e)])],
                create_log_entry(logger, ErrorLogData(t.input, e), clock, UuidDraw(t.n, 1)),
                io_ok)

\* A try block outside the try statement: a failed write leaves the script.
TryWriteUncaught(t, log_entry, io_ok, io2_ok) ==
    IF ~log_entry.exc /\ io_ok
    THEN /\ turn' = [t EXCEPT !.writes = @ + 1]
         /\ file' = AppendLog(file, log_entry.val)
         /\ written' = Append(written, [turn |-> t.n, entry |-> log_entry.val])
         /\ pc' = "handled"
    ELSE /\ turn' = [t EXCEPT !.writes = @ + 1, !.failed = @ + 1, !.propagated = TRUE]
         /\ pc' = "aborted"
         /\ UNCHANGED <<file, written>>

\* The write of the try block; what it raises enters the except branch.
TryWrite(t, log_entry, io_ok, io2_ok) ==
    IF ~log_entry.exc /\ io_ok
    THEN /\ turn' = [t EXCEPT !.writes = @ + 1]
         /\ file' = AppendLog(file, log_entry.val)
         /\ written' = Append(written, [turn |-> t.n, entry |-> log_entry.val])
         /\ pc' = "handled"
    ELSE ExceptBranch(IF log_entry.exc THEN t
                      ELSE [t EXCEPT !.writes = @ + 1, !.failed = @ + 1],
                      IF log_entry.exc THEN log_entry.val ELSE PermissionDenied,
                      io2_ok)

\* The try block after ollama.chat returned response.
TryBlock(response, assistant_response, duration_ms, io_ok, io2_ok) ==
    /\ messages' = AppendMessage(messages, "assistant", assistant_response)
    /\ TryWrite([turn EXCEPT !.model = "ok",
                             !.built = Append(@, [path |-> "try",
                                log_data |-> SuccessLogData(turn.input, assistant_response,
                                                            duration_ms)])],
                create_log_entry(logger,
                                 SuccessLogData(turn.input, assistant_response, duration_ms),
                                 clock, UuidDraw(turn.n, 0)),
                io_ok, io2_ok)

\* ollama.chat returns: the rest of the try block, and the except branch
\* when the entry cannot be built or written.
ModelReturns ==
    /\ pc = "calling"
    /\ \E response \in Responses, io_ok \in BOOLEAN, io2_ok \in BOOLEAN :
        TryBlock(response, AssistantResponse(response), DurationMs(turn.start, clock),
                 io_ok, io2_ok)
    /\ completed' = Append(completed, turn.n)
    /\ UNCHANGED <<logger, call, turns, shown, clock>>

\* ollama.chat raises e.
ModelRaises ==
    /\ pc = "calling"
    /\ \E e \in ModelErrors, io_ok \in BOOLEAN :
        ExceptBranch([turn EXCEPT !.model = "raised"], e, io_ok)
    /\ completed' = Append(completed, turn.n)
    /\ UNCHANGED <<logger, call, messages, turns, shown, clock>>

\* The rest of the script: the chat history, then the recent logs.  A
\* missing file is FileNotFoundError, which is caught.  (st.error drew the
\* handler's messages when they were raised; they stay on the page.)
Render ==
    /\ pc = "handled"
    /\ shown' = [state |-> "ok", errors |-> turn.errors, history |-> messages,
                 logs |-> IF file.exists THEN RecentLogs(file) ELSE <<>>,
                 nologs |-> ~file.exists]
    /\ pc' = "idle"
    /\ UNCHANGED <<logger, call, messages, file, turn, turns, completed, written, clock>>

\* The file exists and cannot be opened for reading: an OSError other than
\* FileNotFoundError, which the script does not catch.
RenderReadFails ==
    /\ pc = "handled"
    /\ file.exists
    /\ shown' = [state |-> "failed", errors |-> turn.errors, history |-> messages,
                 logs |-> <<>>, nologs |-> FALSE]
    /\ pc' = "aborted"
    /\ UNCHANGED <<logger, call, messages, file, turn, turns, completed, written, clock>>

Init == logger = AppLogger /\ call = NoCall /\ AppInit

Next ==
    \/ Rerun
    \/ Submit
    \/ Tick
    \/ ModelReturns
    \/ ModelRaises
    \/ Render
    \/ RenderReadFails

Spec == Init /\ [][Next]_vars

-----------------------------------------------------------------------------
(* Properties of format_field, checked under SpecFormat. *)

Returned == call.op = "format_field" /\ call.done

\* C1: for every value of any kind and every positive target_width,
\* format_field returns a string of exactly target_width characters.
C1_ExactWidth ==
    (Returned /\ call.width > 0 /\ ~call.result.exc)
        => Len(call.result.val) = call.width

\* C2: for a text value, format_field returns the first target_width - 3
\* characters followed by "..." when the text is longer than target_width,
\* and otherwise the unmodified text followed by padding characters only.
\* (Stated for a formatter whose padding character is one character.)
C2_TruncateOrPad ==
    (Returned /\ call.value.kind = "str" /\ call.width > 0
        /\ Len(logger.padding_char) = 1)
        => LET text == call.value.val
               w == call.width
           IN  /\ ~call.result.exc
               /\ Len(text) > w =>
                    call.result.val = SubSeq(text, 1, w - 3) \o <<".", ".", ".">>
               /\ Len(text) <= w =>
                    /\ SubSeq(call.result.val, 1, Len(text)) = text
                    /\ \A i \in Len(text) + 1 .. Len(call.result.val) :
                            call.result.val[i] = logger.padding_char[1]

\* C4: format_field never raises, whatever the formatter's configuration
\* and the field's value.
C4_NeverRaises == Returned => ~call.result.exc

-----------------------------------------------------------------------------
(* Properties of create_log_entry, checked under SpecEntry. *)

EntryReturned == call.op = "create_log_entry" /\ call.done

RECURSIVE Offset(_, _)
\* Where field i starts in a line of the fields joined by a 3-character separator.
Offset(fields, i) ==
    IF i = 1 THEN 0 ELSE Offset(fields, i - 1) + Len(fields[i - 1]) + 3

\* line is exactly the fields, in order, with " | " between neighbours.
IsJoined(line, fields) ==
    LET n == Len(fields)
    IN  /\ n >= 1
        /\ Len(line) = Offset(fields, n) + Len(fields[n])
        /\ \A i \in 1..n :
            /\ SubSeq(line, Offset(fields, i) + 1, Offset(fields, i) + Len(fields[i])) = fields[i]
            /\ i < n => SubSeq(line, Offset(fields, i) + Len(fields[i]) + 1,
                               Offset(fields, i) + Len(fields[i]) + 3) = <<" ", "|", " ">>

\* The widths the claim gives the caller's fields.
ClaimedWidth(key) ==
    CASE key = KeyUserInput -> 50
      [] key = KeyResponse -> 80
      [] key = KeyModel -> 15
      [] key = KeyDurationMs -> 10
      [] OTHER -> 100

\* The same, with the two names the claim leaves out.
TableWidth(key) ==
    CASE key = KeyTimestamp -> 20
      [] key = KeyLogId -> 10
      [] OTHER -> ClaimedWidth(key)

\* The entry is 2 + |log_data| fields joined by " | ": the timestamp at
\* width 20, the short id at width 10, then the caller's fields in insertion
\* order, each rendered by format_field at the width its name has: in the
\* table of the claim (claimed = TRUE) or in the table with all six names.
EntryIs(claimed) ==
    LET d == call.log_data
        expected ==
            <<format_field(logger, StrV(strftime(call.now)), KeyTimestamp, 20).val,
              format_field(logger, StrV(SubSeq(uuid4_str(call.r), 1, 8)), KeyLogId, 10).val>>
            \o [i \in 1..Len(d) |-> format_field(logger, d[i][2], d[i][1],
                                         IF claimed THEN ClaimedWidth(d[i][1])
                                         ELSE TableWidth(d[i][1])).val]
    IN  /\ ~call.result.exc
        /\ Len(expected) = 2 + Len(d)
        /\ IsJoined(call.result.val, expected)

\* C3 as stated: every field name other than user_input, response, model
\* and duration_ms is rendered at the default width 100.
C3_AsClaimed == EntryReturned => EntryIs(TRUE)

\* C3, amended: create_log_entry returns 2 + |log_data| fields joined by
\* " | ", the timestamp at width 20, the short id at width 10, then one field
\* per log_data entry in insertion order, at width 50 for user_input, 80 for
\* response, 15 for model, 10 for duration_ms, 20 for timestamp, 10 for
\* log_id and the default width 100 for every other name.
C3_EntryFields == EntryReturned => EntryIs(FALSE)

\* A returned entry for a log_data that names timestamp and an unknown field.
C3_Witness ==
    /\ EntryReturned
    /\ ~call.result.exc
    /\ Len(call.log_data) = 2
    /\ call.log_data[1][1] = KeyNote
    /\ call.log_data[2][1] = KeyTimestamp
    /\ Len(call.result.val) = 20 + 3 + 10 + 3 + 100 + 3 + 20

-----------------------------------------------------------------------------
(* Properties of the script, checked under Spec. *)

IsPrefix(a, b) == Len(a) <= Len(b) /\ SubSeq(b, 1, Len(a)) = a

\* The number of lines of a text: one per terminator, and one more for an
\* unterminated rest.
LineCount(text) ==
    Cardinality({i \in 1..Len(text) : text[i] = "\n"})
        + (IF text # <<>> /\ text[Len(text)] # "\n" THEN 1 ELSE 0)

\* The handler ran to its end in the current run: the model call returned
\* or raised, and no exception left the handler.
TurnHandled == turn.n > 0 /\ turn.model \in {"ok", "raised"} /\ ~turn.propagated

\* What the current run appended to the log file.
Appended == SubSeq(file.text, Len(turn.fileBefore.text) + 1, Len(file.text))

\* C5: every chat turn, whether the model call succeeds or fails, makes the
\* line count of chat_logs.txt grow by exactly 1, for any input and response
\* text.  (Stated for the turns whose handler ran to its end.)
C5_OneLinePerTurn ==
    TurnHandled => LineCount(file.text) = LineCount(turn.fileBefore.text) + 1

\* The fields of a log line of the script, by their columns.
FieldUserInput(line) == SubSeq(line, 37, 86)
FieldResponse(line) == SubSeq(line, 90, 169)
FieldModel(line) == SubSeq(line, 173, 187)
FieldDurationMs(line) == SubSeq(line, 191, 200)

\* text, cut to width characters with "..." when longer, then padded with spaces.
Column(text, width) ==
    IF Len(text) > width
    THEN SubSeq(text, 1, width - 3) \o <<".", ".", ".">>
    ELSE text \o [i \in 1..(width - Len(text)) |-> " "]

\* entry (a line and its terminator) is the error entry of the turn for the error e.
IsErrorEntry(entry, e) ==
    /\ Len(entry) = 201
    /\ entry[201] = "\n"
    /\ FieldUserInput(entry) = Column(turn.input, 50)
    /\ FieldResponse(entry) = Column(<<"E", "r", "r", "o", "r", ":", " ">> \o e, 80)
    /\ FieldModel(entry) = Column(ModelName, 15)
    /\ FieldDurationMs(entry) = Column(<<"0">>, 10)

\* The log_data d is that of an error entry for the error e.
IsErrorData(d, e) ==
    /\ Len(d) = 4
    /\ d[1] = <<KeyUserInput, StrV(turn.input)>>
    /\ d[2] = <<KeyResponse, StrV(<<"E", "r", "r", "o", "r", ":", " ">> \o e)>>
    /\ d[3] = <<KeyModel, StrV(ModelName)>>
    /\ d[4] = <<KeyDurationMs, IntV(0)>>

\* C6: when the model call raises, the error is caught once, shown to the
\* user as an error message and logged as exactly one log entry whose
\* response field is the error text and whose duration_ms is 0; no
\* success-path entry is built and the model is not called again.  (The
\* entry reaches the file unless the write itself fails, which is C7's case.)
C6_ModelErrorHandled ==
    turn.model = "raised" =>
        /\ turn.calls = 1
        /\ \E e \in ModelErrors :
            /\ turn.errors = <<<<"E", "r", "r", "o", "r", ":", " ">> \o e>>
            /\ Len(turn.built) = 1
            /\ turn.built[1].path = "except"
            /\ IsErrorData(turn.built[1].log_data, e)
            /\ turn.writes = 1
            /\ turn.failed = 0 => ~turn.propagated /\ IsErrorEntry(Appended, e)
            /\ turn.failed # 0 => turn.propagated /\ file = turn.fileBefore

\* A turn whose model call raised and whose error entry is in the file.
C6_Witness ==
    /\ turn.model = "raised"
    /\ turn.failed = 0
    /\ pc = "handled"
    /\ turn.n = 2
    /\ Len(file.text) > Len(turn.fileBefore.text)
    /\ Len(turn.fileBefore.text) > 0

\* C7 as stated: whenever a write of the log file fails during a turn, on
\* either path, the error propagates, the handler shows no error message for
\* it, builds no second entry and attempts no second write.
C7_AsClaimed ==
    turn.failed > 0 =>
        /\ turn.propagated
        /\ \A i \in 1..Len(turn.errors) :
                turn.errors[i] # <<"E", "r", "r", "o", "r", ":", " ">> \o PermissionDenied
        /\ Len(turn.built) = 1
        /\ turn.writes = 1

\* C7, amended: a log I/O error propagates only from the except branch.
\* After a model error, a failed write propagates with nothing more shown,
\* built or written.  A failed write in the try block is caught by the
\* handler's except branch, which shows "Error: <the I/O error>", builds a
\* second entry (the error text as response, duration_ms 0) and attempts a
\* second write; the error propagates only if that second write fails too.
C7_IOErrorHandling ==
    turn.failed > 0 =>
        /\ turn.model \in {"ok", "raised"}
        /\ turn.model = "raised" =>
            /\ turn.propagated
            /\ turn.failed = 1 /\ turn.writes = 1 /\ Len(turn.built) = 1
            /\ Len(turn.errors) = 1
            /\ turn.errors[1] # <<"E", "r", "r", "o", "r", ":", " ">> \o PermissionDenied
            /\ file = turn.fileBefore
        /\ turn.model = "ok" =>
            /\ turn.errors = <<<<"E", "r", "r", "o", "r", ":", " ">> \o PermissionDenied>>
            /\ Len(turn.built) = 2
            /\ turn.built[1].path = "try"
            /\ turn.built[2].path = "except"
            /\ IsErrorData(turn.built[2].log_data, PermissionDenied)
            /\ turn.writes = 2
            /\ turn.failed \in {1, 2}
            /\ turn.failed = 1 => ~turn.propagated /\ IsErrorEntry(Appended, PermissionDenied)
            /\ turn.failed = 2 => turn.propagated /\ file = turn.fileBefore

\* A write of the try block failed and the except branch logged the I/O error.
C7_Witness ==
    /\ turn.model = "ok"
    /\ turn.failed = 1
    /\ ~turn.propagated
    /\ pc = "handled"
    /\ Len(file.text) = Len(turn.fileBefore.text) + 201

RECURSIVE Concat(_)
\* The entries written, each with its terminator, one after the other.
Concat(w) ==
    IF w = <<>> THEN <<>> ELSE Head(w).entry \o <<"\n">> \o Concat(Tail(w))

\* The place of turn n in the order of completion.
CompletedAt(n) == CHOOSE i \in 1..Len(completed) : completed[i] = n

C8_Ordered ==
    /\ file.text = Concat(written)
    /\ \A i \in 1..Len(written) : \E k \in 1..Len(completed) : completed[k] = written[i].turn
    /\ \A i, j \in 1..Len(written) :
            i < j => CompletedAt(written[i].turn) < CompletedAt(written[j].turn)

\* C8: the log file holds the entries in the order their turns completed,
\* and a step only ever adds to the end of the file.
C8_LogOrder ==
    /\ []C8_Ordered
    /\ [][IsPrefix(file.text, file'.text) /\ (file.exists => file'.exists)]_vars

\* Two turns have completed and written, the second after the first.
C8_Witness ==
    /\ Len(written) = 2
    /\ written[1].turn = 1
    /\ written[2].turn = 2
    /\ written[1].entry # written[2].entry

\* ls are the lines of text: together they are the text, and each ends at
\* its first terminator, the last one possibly without any.
IsLines(ls, text) ==
    /\ \A i \in 1..Len(ls) :
        /\ ls[i] # <<>>
        /\ \A k \in 1..(Len(ls[i]) - 1) : ls[i][k] # "\n"
        /\ i < Len(ls) => ls[i][Len(ls[i])] = "\n"
    /\ LET RECURSIVE Flat(_)
           Flat(q) == IF q = <<>> THEN <<>> ELSE Head(q) \o Flat(Tail(q))
       IN  Flat(ls) = text

\* line without its terminator
Chomp(line) ==
    IF line # <<>> /\ line[Len(line)] = "\n" THEN SubSeq(line, 1, Len(line) - 1) ELSE line

\* t is line without its leading and trailing whitespace.
IsStripped(t, line) ==
    /\ t # <<>> => ~IsSpace(t[1]) /\ ~IsSpace(t[Len(t)])
    /\ \E a \in 0..Len(line) :
        /\ a + Len(t) <= Len(line)
        /\ SubSeq(line, a + 1, a + Len(t)) = t
        /\ \A k \in (1..a) \cup ((a + Len(t) + 1)..Len(line)) : IsSpace(line[k])

\* The read-back drew the last min(5, n) lines of the file, in file order,
\* each verbatim but for its terminator (verbatim = TRUE) or without its
\* leading and trailing whitespace; or the empty-state message when there is
\* no file.
ReadBackShows(verbatim) ==
    shown.state = "ok" =>
        IF file.exists
        THEN LET ls == readlines(file.text)
                 k == IF Len(ls) < 5 THEN Len(ls) ELSE 5
             IN  /\ IsLines(ls, file.text)
                 /\ ~shown.nologs
                 /\ Len(shown.logs) = k
                 /\ \A i \in 1..k :
                        IF verbatim THEN shown.logs[i] = Chomp(ls[Len(ls) - k + i])
                        ELSE IsStripped(shown.logs[i], ls[Len(ls) - k + i])
        ELSE shown.nologs /\ shown.logs = <<>>

\* C9 as stated: the read-back shows the last min(5, n) lines verbatim,
\* apart from the line terminator, and never fails the interaction.
C9_AsClaimed == ReadBackShows(TRUE) /\ shown.state # "failed"

C9_Shows == ReadBackShows(FALSE) /\ (shown.state = "failed" => file.exists)

\* C9, amended: the read-back shows the most recent min(5, n) lines of the
\* file, in file order, each without its leading and trailing whitespace
\* (the padding that ends a line is not shown); the empty-state message when
\* the file does not exist; it never modifies the file; and it fails the
\* interaction only when a file that exists cannot be read.
C9_ReadBack ==
    /\ []C9_Shows
    /\ [][pc = "handled" /\ pc' # "handled" => file' = file]_vars

\* A render of a file of more than 5 lines, one of them shown without its padding.
C9_Witness ==
    /\ shown.state = "ok"
    /\ LineCount(file.text) > 5
    /\ Len(shown.logs) = 5
    /\ \E i \in 1..5 :
            Len(shown.logs[i]) < Len(Chomp(readlines(file.text)[LineCount(file.text) - 5 + i]))

UserMessage(content) == [role |-> "user", content |-> content]

C10_Shape ==
    /\ \A i \in 1..Len(messages) :
            messages[i].role = "assistant" => i > 1 /\ messages[i - 1].role = "user"
    /\ turn.n = 0 => messages = turn.histBefore /\ file = turn.fileBefore
    /\ turn.model \in {"pending", "raised"} =>
            messages = turn.histBefore \o <<UserMessage(turn.input)>>
    /\ turn.model = "ok" =>
        /\ Len(messages) = Len(turn.histBefore) + 2
        /\ SubSeq(messages, 1, Len(messages) - 1)
                = turn.histBefore \o <<UserMessage(turn.input)>>
        /\ messages[Len(messages)].role = "assistant"

\* C10: the chat history only grows at its end; every assistant message
\* directly follows the user message of its turn; a turn whose model call
\* returns adds the user message then the assistant message, a turn whose
\* model call raises adds the user message alone, and a run with empty input
\* changes neither the history nor the log file.
C10_History ==
    /\ []C10_Shape
    /\ [][IsPrefix(messages, messages')]_vars

\* A turn that succeeded, then a turn whose model call raised.
C10_Witness ==
    /\ Len(messages) = 3
    /\ messages[2].role = "assistant"
    /\ messages[3].role = "user"
    /\ turn.model = "raised"
    /\ turn.n = 2

=============================================================================
